---- MODULE Spec2Model ----
(***************************************************************************)
(* Model of jedi/evaluate/compiled/access.py: the per-evaluator identity   *)
(* cache (compiled_objects_cache / create_access) and the operations of    *)
(* DirectObjectAccess that wrap their results through it.                  *)
(*                                                                         *)
(* Runtime values are named by strings.  Module and class objects and the  *)
(* containers below live for the whole session at fixed addresses;         *)
(* temporaries are allocated by the host, may be garbage collected when    *)
(* nothing references them, and their address (what id() returns) may then *)
(* be reused by a later temporary.                                         *)
(***************************************************************************)
EXTENDS Integers, Sequences, FiniteSets, TLC

VARIABLES cache, made, addr, held, ret

vars == <<cache, made, addr, held, ret>>

(* ------------------------------ bounds -------------------------------- *)

\* Number of heap addresses available to temporaries.
NAddr == 1

\* Largest number of entries of compiled_cache explored.
MaxCache == 2

\* Largest number of DirectObjectAccess constructions explored per value.
MaxMade == 2

(* --------------------------- the value universe ----------------------- *)

Modules == {"builtins", "os"}

Classes == {"type", "object", "module", "list", "MyList", "dict", "int",
            "bool", "generator", "method_descriptor"}

Lists == {"lst2", "lst21", "lst22"}

Perm == Modules \cup Classes \cup Lists \cup
        {"myl", "d", "gen", "zero", "one", "True", "False", "append"}

\* "append" is list.append, the method descriptor the class list owns.
\* Temporaries, in allocation order; each is an int object of value -1.
TempSeq == <<"tmp1", "tmp2">>

Temps == {TempSeq[i] : i \in 1..Len(TempSeq)}

Objs == Perm \cup Temps

\* type(obj): the class object of a value.
TypeOf(o) ==
  CASE o \in Modules -> "module"
    [] o \in Classes -> "type"
    [] o \in Lists -> "list"
    [] o = "myl" -> "MyList"
    [] o = "d" -> "dict"
    [] o = "gen" -> "generator"
    [] o \in {"zero", "one"} \cup Temps -> "int"
    [] o \in {"True", "False"} -> "bool"
    [] o = "append" -> "method_descriptor"

\* cls.__mro__ of a class object.
Mro(c) ==
  CASE c = "object" -> <<"object">>
    [] c = "MyList" -> <<"MyList", "list", "object">>
    [] c = "bool" -> <<"bool", "int", "object">>
    [] OTHER -> <<c, "object">>

\* i > 20 in py__iter__list.
IterCap == 20

\* The elements a finite value yields when iterated (a dict yields its keys;
\* "myl" is an instance of a list subclass whose class overrides __iter__
\* and __getitem__).
Alternate(n) == [i \in 1..n |-> IF i % 2 = 1 THEN "zero" ELSE "one"]

Elems(o) ==
  CASE o = "lst2" -> <<"one", "os">>
    [] o = "lst21" -> Alternate(IterCap + 1)
    [] o = "lst22" -> Alternate(IterCap + 2)
    [] o = "myl" -> <<"zero", "one">>
    [] o = "d" -> <<"one">>
    [] OTHER -> <<>>

\* "gen" is a generator that never stops.
Infinite(o) == o = "gen"

Iterable(o) == o \in Lists \cup {"myl", "d", "gen"}

HasNext(o, i) == Infinite(o) \/ i < Len(Elems(o))

ElemAt(o, i) ==
  IF Infinite(o) THEN (IF i % 2 = 0 THEN "zero" ELSE "one") ELSE Elems(o)[i + 1]

\* Values whose class defines its own subscript / iteration code.
CustomContainer(o) == TypeOf(o) \in {"MyList", "generator"}

\* The numeric value of int and bool objects.
Numeric(o) == TypeOf(o) \in {"int", "bool"}

NumValue(o) ==
  CASE o \in {"zero", "False"} -> 0
    [] o \in {"one", "True"} -> 1
    [] OTHER -> -1

(* ------------------------- heap and identities ------------------------ *)

\* id(obj) of the session-long values: fixed and pairwise distinct, outside
\* the addresses temporaries are allocated at.
PermSeq ==
  <<"builtins", "os", "type", "object", "module", "list", "MyList", "dict",
    "int", "bool", "generator", "lst2", "lst21", "lst22", "myl", "d", "gen",
    "zero", "one", "True", "False", "method_descriptor", "append">>

PermIds == [o \in Perm |-> 100 + (CHOOSE i \in 1..Len(PermSeq) : PermSeq[i] = o)]

PermId(o) == PermIds[o]

\* A temporary is unborn (0), alive at an address a of Addrs, or collected
\* (-a, a the address it had).
Addrs == 1..NAddr

Alive(ad, o) == o \in Perm \/ ad[o] \in Addrs

\* key = id(obj)
Id(ad, o) == IF o \in Perm THEN PermId(o) ELSE ad[o]

FreeAddrs(ad) == Addrs \ {ad[t] : t \in Temps}

Unborn(ad) == {i \in 1..Len(TempSeq) : ad[TempSeq[i]] = 0}

\* The values something still references: the caller's own references, the
\* second component of every cache entry, and the _obj of every cached wrapper.
Referenced == held \cup {cache[k].obj : k \in DOMAIN cache}
                   \cup {cache[k].w[1] : k \in DOMAIN cache}

(* --------------------------- the identity cache ----------------------- *)

\* The session state the operations thread through: compiled_cache, the
\* number of DirectObjectAccess objects constructed per value, the heap.
Session == [cache |-> cache, made |-> made, addr |-> addr]

\* try: cache[key]
CacheHas(c, key) == key \in DOMAIN c

\* Mutant: the entry keeps the wrapper only, no reference to the value.
CacheStoreNoRef(c, key, result, obj) ==
  [k \in DOMAIN c \cup {key} |->
     IF k = key THEN [w |-> result, obj |-> "None"] ELSE c[k]]

\* Mutant: storing an entry drops the entries stored before.
CacheStoreEvict(c, key, result, obj) ==
  [k \in {key} |-> [w |-> result, obj |-> obj]]

\* cache[key] = result, obj
CacheStore(c, key, result, obj) ==
  [k \in DOMAIN c \cup {key} |->
     IF k = key THEN [w |-> result, obj |-> obj] ELSE c[k]]

\* DirectObjectAccess(evaluator, obj): a new wrapper object, named by the
\* value it wraps and its construction number for that value.
DirectObjectAccess(S, obj) == <<obj, S.made[obj] + 1>>

\* Mutant: the lookup never hits; every call constructs and stores.
create_access_uncached(S, obj) ==
  LET result == DirectObjectAccess(S, obj)
  IN [st |-> [S EXCEPT !.cache = CacheStore(S.cache, Id(S.addr, obj), result, obj),
                       !.made = [S.made EXCEPT ![obj] = @ + 1]],
      w |-> result]

\* compiled_objects_cache.wrapper around create_access.
create_access(S, obj) ==
  LET key == Id(S.addr, obj)
  IN IF CacheHas(S.cache, key)
       THEN [st |-> S, w |-> S.cache[key].w]
       ELSE LET result == DirectObjectAccess(S, obj)
            IN [st |-> [S EXCEPT !.cache = CacheStore(S.cache, key, result, obj),
                                 !.made = [S.made EXCEPT ![obj] = @ + 1]],
                w |-> result]

\* The values the caller has a wrapper of (every wrapper comes from
\* create_access, which keeps it in the cache).
Wrapped == {cache[k].w[1] : k \in DOMAIN cache} \cap Objs

\* What an operation hands back: the operation, the wrapped value it ran on,
\* its arguments, the kind of result ("access", "list", "none", "value",
\* "path", "bool", "raise"), the result, and whether code of the inspected
\* value itself (a custom __getitem__, __iter__ or property getter) ran.
\* hit tells, for create_access, that the entry was already in the cache.
Ret(op, self, arg, kind, val, ran) ==
  [op |-> op, self |-> self, arg |-> arg, kind |-> kind, val |-> val,
   ran |-> ran, hit |-> FALSE]

\* The state an operation leaves behind, within the explored bounds.
Commit(st, cap) ==
  /\ Cardinality(DOMAIN st.cache) <= cap
  /\ \A o \in Objs : st.made[o] <= MaxMade
  /\ cache' = st.cache
  /\ made' = st.made
  /\ addr' = st.addr
  /\ UNCHANGED held

(* ------------------------- container operations ---------------------- *)

\* Results of an operation: the session state it leaves, and the fields of Ret.
Out(S, kind, val, ran) == [st |-> S, kind |-> kind, val |-> val, ran |-> ran]

Raise(S, exc, ran) == Out(S, "raise", <<exc>>, ran)

\* (str, list, tuple, unicode, bytes, bytearray, dict)
ContainerTypes == {"str", "list", "tuple", "unicode", "bytes", "bytearray", "dict"}

\* Mutant: isinstance instead of the exact type.
InContainerWhitelistSubclass(o) ==
  \E i \in 1..Len(Mro(TypeOf(o))) : Mro(TypeOf(o))[i] \in ContainerTypes

\* Mutant: no type check at all.
InContainerWhitelistAll(o) == TRUE

\* type(self._obj) in (str, list, tuple, unicode, bytes, bytearray, dict)
InContainerWhitelist(o) == TypeOf(o) \in ContainerTypes

\* self._obj[index] as the host evaluates it: the element, or the fault.
\* The dict "d" is {1: os}; a key is looked up by value.
Subscript(o, index) ==
  CASE o \in Lists \cup {"myl"} ->
         IF index \in 0..(Len(Elems(o)) - 1)
           THEN [exc |-> "", val |-> Elems(o)[index + 1]]
           ELSE [exc |-> "IndexError", val |-> ""]
    [] o = "d" ->
         IF index = 1 THEN [exc |-> "", val |-> "os"]
                      ELSE [exc |-> "KeyError", val |-> ""]
    [] OTHER -> [exc |-> "TypeError", val |-> ""]

py__getitem__(S, o, index) ==
  IF ~InContainerWhitelist(o)
    THEN Out(S, "none", <<>>, FALSE)
    ELSE LET r == Subscript(o, index)
         IN IF r.exc # ""
              THEN Raise(S, r.exc, CustomContainer(o))
              ELSE LET c == create_access(S, r.val)
                   IN Out(c.st, "access", <<c.w>>, CustomContainer(o))

\* Mutant: the cap is off by one.
BreakLate(i) == i > IterCap + 1

\* if i > 20: break
Break(i) == i > IterCap

\* for i, part in enumerate(self._obj): ... lst.append(self._create_access(part))
RECURSIVE IterLoop(_, _, _, _)
IterLoop(S, o, i, lst) ==
  IF ~HasNext(o, i) THEN [st |-> S, lst |-> lst]
  ELSE IF Break(i) THEN [st |-> S, lst |-> lst]
  ELSE LET c == create_access(S, ElemAt(o, i))
       IN IterLoop(c.st, o, i + 1, Append(lst, c.w))

py__iter__list(S, o) ==
  IF ~InContainerWhitelist(o)
    THEN Out(S, "list", <<>>, FALSE)
    ELSE IF ~Iterable(o)
      THEN Raise(S, "TypeError", FALSE)
      ELSE LET r == IterLoop(S, o, 0, <<>>)
           IN Out(r.st, "list", r.lst, CustomContainer(o))

\* [self._create_access(x) for x in seq], left to right.
RECURSIVE CreateAll(_, _, _)
CreateAll(S, seq, lst) ==
  IF seq = <<>> THEN [st |-> S, lst |-> lst]
  ELSE LET c == create_access(S, Head(seq))
       IN CreateAll(c.st, Tail(seq), Append(lst, c.w))

\* tuple(self._create_access(cls) for cls in self._obj.__mro__[1:]);
\* only class objects have __mro__.
py__mro__accesses(S, o) ==
  IF o \notin Classes
    THEN Raise(S, "AttributeError", FALSE)
    ELSE LET r == CreateAll(S, Tail(Mro(o)), <<>>)
         IN Out(r.st, "list", r.lst, FALSE)

py__class__(S, o) ==
  LET c == create_access(S, TypeOf(o))
  IN Out(c.st, "access", <<c.w>>, FALSE)

\* self._obj.values(): only the dict has it.
DictValues(o) == IF o = "d" THEN <<"os">> ELSE <<>>

dict_values(S, o) ==
  IF TypeOf(o) # "dict"
    THEN Raise(S, "AttributeError", FALSE)
    ELSE LET r == CreateAll(S, DictValues(o), <<>>)
         IN Out(r.st, "list", r.lst, FALSE)

(* ----------------------------- operators ----------------------------- *)

\* The int object of value v the host hands back: the session-long object
\* of that value, or, for -1, a temporary that is alive or newly allocated.
\* Values outside -1..1 are outside the universe explored.
IntObjects(ad, v) ==
  CASE v = 0 -> {[o |-> "zero", ad |-> ad]}
    [] v = 1 -> {[o |-> "one", ad |-> ad]}
    [] v = -1 ->
         {[o |-> t, ad |-> ad] : t \in {u \in Temps : ad[u] \in Addrs}}
         \cup
         (IF Unborn(ad) = {} THEN {}
          ELSE LET t == TempSeq[CHOOSE i \in Unborn(ad) :
                                  \A j \in Unborn(ad) : i <= j]
               IN {[o |-> t, ad |-> [ad EXCEPT ![t] = a]] : a \in FreeAddrs(ad)})
    [] OTHER -> {}

BoolObjects(ad, b) == {[o |-> IF b THEN "True" ELSE "False", ad |-> ad]}

\* _OPERATORS and COMPARISON_OPERATORS: the operator module's function of
\* each token.
Tokens == {"==", "!=", "is", "is not", "<", "<=", ">", ">=", "+", "-"}

\* op(self._obj, other._obj): the objects the host may hand back.  Ordering
\* and arithmetic are explored on int and bool operands.
OpObjects(ad, token, a, b) ==
  LET num == Numeric(a) /\ Numeric(b)
      x == NumValue(a)
      y == NumValue(b)
      eq == IF num THEN x = y ELSE a = b
  IN CASE token = "is" -> BoolObjects(ad, a = b)
       [] token = "is not" -> BoolObjects(ad, a # b)
       [] token = "==" -> BoolObjects(ad, eq)
       [] token = "!=" -> BoolObjects(ad, ~eq)
       [] token = "<" /\ num -> BoolObjects(ad, x < y)
       [] token = "<=" /\ num -> BoolObjects(ad, x <= y)
       [] token = ">" /\ num -> BoolObjects(ad, x > y)
       [] token = ">=" /\ num -> BoolObjects(ad, x >= y)
       [] token = "+" /\ num -> IntObjects(ad, x + y)
       [] token = "-" /\ num -> IntObjects(ad, x - y)
       [] OTHER -> {}

\* return self._create_access(op(self._obj, other._obj)), the host having
\* produced result c.
execute_operation(S, c) ==
  LET r == create_access([S EXCEPT !.addr = c.ad], c.o)
  IN Out(r.st, "access", <<r.w>>, FALSE)

\* return self._create_access(-self._obj), the host having produced c.
negate(S, c) ==
  LET r == create_access([S EXCEPT !.addr = c.ad], c.o)
  IN Out(r.st, "access", <<r.w>>, FALSE)

(* ----------------------------- attributes ---------------------------- *)

AttrNames == {"data", "prop", "qprop", "slot", "meth", "smeth", "cmeth",
              "real", "__neg__", "append", "fromkeys", "nope"}

\* getattr_static(obj, name): the attribute as declared, found without
\* running any getter, and whether a normal read would go through a
\* get-on-access handler.  kind is the type of the attribute found.
\* "myl" has the instance attribute data; its class declares the properties
\* prop and qprop, the slot slot, the function meth, the staticmethod smeth
\* and the classmethod cmeth, and inherits list.append.
Found(kind, isget) == [found |-> TRUE, kind |-> kind, isget |-> isget]

NoAttr == [found |-> FALSE, kind |-> "", isget |-> FALSE]

getattr_static(o, name) ==
  CASE o = "myl" /\ name = "data" -> Found("int", FALSE)
    [] o = "myl" /\ name \in {"prop", "qprop"} -> Found("property", TRUE)
    [] o = "myl" /\ name = "slot" -> Found("member_descriptor", TRUE)
    [] o = "myl" /\ name = "meth" -> Found("function", TRUE)
    [] o = "myl" /\ name = "smeth" -> Found("staticmethod", TRUE)
    [] o = "myl" /\ name = "cmeth" -> Found("classmethod", TRUE)
    [] o \in Lists \cup {"myl"} /\ name = "append" -> Found("method_descriptor", TRUE)
    [] Numeric(o) /\ name = "real" -> Found("getset_descriptor", TRUE)
    [] Numeric(o) /\ name = "__neg__" -> Found("wrapper_descriptor", TRUE)
    [] o = "d" /\ name = "fromkeys" -> Found("classmethod_descriptor", TRUE)
    [] OTHER -> NoAttr

\* Mutant: the table misses the staticmethod and classmethod wrappers.
ALLOWED_WITHOUT_WRAPPERS ==
  {"function", "getset_descriptor", "member_descriptor", "method_descriptor",
   "wrapper_descriptor", "classmethod_descriptor"}

\* ALLOWED_DESCRIPTOR_ACCESS
ALLOWED_DESCRIPTOR_ACCESS ==
  {"function", "getset_descriptor", "member_descriptor", "method_descriptor",
   "wrapper_descriptor", "classmethod_descriptor", "staticmethod", "classmethod"}

\* if is_get_descriptor and not type(attr) in ALLOWED_DESCRIPTOR_ACCESS: return False
Refused(kind, isget) == isget /\ kind \notin ALLOWED_DESCRIPTOR_ACCESS

is_allowed_getattr(S, o, name) ==
  LET a == getattr_static(o, name)
  IN IF ~a.found THEN Raise(S, "AttributeError", FALSE)
     ELSE IF Refused(a.kind, a.isget) THEN Out(S, "bool", <<FALSE>>, FALSE)
     ELSE Out(S, "bool", <<TRUE>>, FALSE)

\* getattr(self._obj, name) as the host evaluates it: the objects it may
\* hand back, or the fault; ran tells that a property getter ran.  The
\* getter of prop returns 0, the getter of qprop raises AttributeError.
\* Reads that build a new bound method are outside the universe explored.
Got(objs, ran) == [exc |-> "", objs |-> objs, ran |-> ran]

LiveAttr(ad, o, name) ==
  CASE o = "myl" /\ name = "data" -> Got({[o |-> "one", ad |-> ad]}, FALSE)
    [] o = "myl" /\ name = "prop" -> Got({[o |-> "zero", ad |-> ad]}, TRUE)
    [] o = "myl" /\ name = "qprop" -> [exc |-> "AttributeError", objs |-> {}, ran |-> TRUE]
    [] o = "myl" /\ name = "slot" -> Got({[o |-> "os", ad |-> ad]}, FALSE)
    [] Numeric(o) /\ name = "real" -> Got(IntObjects(ad, NumValue(o)), FALSE)
    [] getattr_static(o, name).found -> Got({}, FALSE)
    [] OTHER -> [exc |-> "AttributeError", objs |-> {}, ran |-> FALSE]

\* The defaults the caller passes: none (_sentinel), None, or a value.
Defaults == {"_sentinel", "None", "one"}

\* except AttributeError: if default is _sentinel: raise; return None
getattr_missing(S, default, ran) ==
  IF default = "_sentinel" THEN Raise(S, "AttributeError", ran)
  ELSE Out(S, "none", <<>>, ran)

\* return self._create_access(getattr(self._obj, name)), the read having
\* produced c.
getattr_found(S, c, ran) ==
  LET r == create_access([S EXCEPT !.addr = c.ad], c.o)
  IN Out(r.st, "access", <<r.w>>, ran)

\* (float, int, str, unicode, slice, type(Ellipsis))
SafeTypes == {"float", "int", "str", "unicode", "slice", "ellipsis"}

\* Mutant: a supplied default is handed back.
get_safe_value_default(S, o, default) ==
  IF TypeOf(o) \in SafeTypes THEN Out(S, "value", <<o>>, FALSE)
  ELSE IF default = "_sentinel" THEN Raise(S, "ValueError", FALSE)
  ELSE Out(S, "value", <<default>>, FALSE)

get_safe_value(S, o, default) ==
  IF TypeOf(o) \in SafeTypes THEN Out(S, "value", <<o>>, FALSE)
  ELSE IF default = "_sentinel" THEN Raise(S, "ValueError", FALSE)
  ELSE Out(S, "none", <<>>, FALSE)

(* ----------------------------- access path --------------------------- *)

\* obj.__objclass__, obj.__module__ and o.__name__; "" when the attribute
\* is missing.  Instances of built-in types have no __module__; an instance
\* of MyList sees its class's, "ghostmod", a module that does not exist.
ObjClass(o) == IF o = "append" THEN "list" ELSE ""

ModuleName(o) ==
  CASE o \in {"MyList", "myl"} -> "ghostmod"
    [] o \in Classes -> "builtins"
    [] OTHER -> ""

NameOf(o) ==
  CASE o \in Modules \cup Classes -> o
    [] o \in {"gen", "append"} -> o
    [] OTHER -> ""

\* __import__(imp_plz): the module, or "" for ImportError.
Import(name) == IF name \in Modules THEN name ELSE ""

\* Mutant: a failed import yields nothing.
get_no_fallback(o) ==
  LET own == IF ObjClass(o) = "" THEN <<>> ELSE <<ObjClass(o)>>
      obj == IF ObjClass(o) = "" THEN o ELSE ObjClass(o)
      imp_plz == ModuleName(obj)
      top == IF imp_plz = ""
               THEN (IF obj \in Modules THEN <<>> ELSE <<"builtins">>)
               ELSE IF imp_plz = "None" THEN <<"builtins">>
               ELSE IF Import(imp_plz) = "" THEN <<>>
               ELSE <<Import(imp_plz)>>
  IN <<o>> \o own \o top

\* The generator get() of _get_objects_path, as the sequence it yields.
get(o) ==
  LET own == IF ObjClass(o) = "" THEN <<>> ELSE <<ObjClass(o)>>
      obj == IF ObjClass(o) = "" THEN o ELSE ObjClass(o)
      imp_plz == ModuleName(obj)
      top == IF imp_plz = ""
               THEN (IF obj \in Modules THEN <<>> ELSE <<"builtins">>)
               ELSE IF imp_plz = "None" THEN <<"builtins">>
               ELSE IF Import(imp_plz) = "" THEN <<"builtins">>
               ELSE <<Import(imp_plz)>>
  IN <<o>> \o own \o top

Reversed(seq) == [i \in 1..Len(seq) |-> seq[Len(seq) + 1 - i]]

\* return list(reversed(list(get())))
_get_objects_path(o) == Reversed(get(o))

\* [(name, self._create_access(o)) for name, o in result]
Named(path, lst) == [i \in 1..Len(path) |-> <<NameOf(path[i]), lst[i]>>]

get_access_path_tuples(S, o) ==
  LET path == _get_objects_path(o)
  IN IF \E i \in 1..Len(path) : NameOf(path[i]) = ""
       THEN Out(S, "path", <<>>, FALSE)
       ELSE LET r == CreateAll(S, path, <<>>)
            IN Out(r.st, "path", Named(path, r.lst), FALSE)

(* ------------------------------ actions ------------------------------- *)

Init ==
  /\ cache = [k \in {} |-> 0]
  /\ made = [o \in Objs |-> 0]
  /\ addr = [t \in Temps |-> 0]
  /\ held = {}
  /\ ret = Ret("init", "builtins", <<>>, "none", <<>>, FALSE)

\* The host creates a new value; the caller holds the only reference to it.
Alloc ==
  /\ Unborn(addr) # {}
  /\ \E a \in FreeAddrs(addr) :
       LET t == TempSeq[CHOOSE i \in Unborn(addr) : \A j \in Unborn(addr) : i <= j]
       IN /\ addr' = [addr EXCEPT ![t] = a]
          /\ held' = held \cup {t}
  /\ UNCHANGED <<cache, made, ret>>

\* The caller drops its reference to a value.
Release ==
  /\ \E t \in held : held' = held \ {t}
  /\ UNCHANGED <<cache, made, addr, ret>>

\* The host collects a value nothing references; its address is free again.
Collect ==
  /\ \E t \in Temps :
       /\ addr[t] \in Addrs
       /\ t \notin Referenced
       /\ addr' = [addr EXCEPT ![t] = 0 - addr[t]]
  /\ UNCHANGED <<cache, made, held, ret>>

\* create_access(evaluator, obj) on a value the caller can reach: one of
\* the session-long values roots, or a temporary it holds.
CreateAccess(cap, roots) ==
  \E o \in roots \cup held :
    LET r == create_access(Session, o)
    IN /\ Commit(r.st, cap)
       /\ ret' = [Ret("create_access", o, <<>>, "access", <<r.w>>, FALSE)
                 EXCEPT !.hit = CacheHas(cache, Id(addr, o))]

PyGetitem(cap, indices) ==
  \E o \in Wrapped, index \in indices :
    LET r == py__getitem__(Session, o, index)
    IN /\ Commit(r.st, cap)
       /\ ret' = Ret("py__getitem__", o, <<index>>, r.kind, r.val, r.ran)

PyIterList(cap) ==
  \E o \in Wrapped :
    LET r == py__iter__list(Session, o)
    IN /\ Commit(r.st, cap)
       /\ ret' = Ret("py__iter__list", o, <<>>, r.kind, r.val, r.ran)

PyMroAccesses(cap) ==
  \E o \in Wrapped :
    LET r == py__mro__accesses(Session, o)
    IN /\ Commit(r.st, cap)
       /\ ret' = Ret("py__mro__accesses", o, <<>>, r.kind, r.val, r.ran)

PyClass(cap) ==
  \E o \in Wrapped :
    LET r == py__class__(Session, o)
    IN /\ Commit(r.st, cap)
       /\ ret' = Ret("py__class__", o, <<>>, r.kind, r.val, r.ran)

DictValuesOp(cap) ==
  \E o \in Wrapped :
    LET r == dict_values(Session, o)
    IN /\ Commit(r.st, cap)
       /\ ret' = Ret("dict_values", o, <<>>, r.kind, r.val, r.ran)

\* execute_operation(other, operator) for every token of _OPERATORS.
ExecuteOperation(cap) ==
  \E o \in Wrapped, other \in Wrapped :
    \E c \in UNION {OpObjects(addr, token, o, other) : token \in Tokens} :
      LET r == execute_operation(Session, c)
      IN /\ Commit(r.st, cap)
         /\ ret' = Ret("execute_operation", o, <<>>, r.kind, r.val, r.ran)

Negate(cap) ==
  \E o \in Wrapped :
    IF Numeric(o)
      THEN \E c \in IntObjects(addr, 0 - NumValue(o)) :
             LET r == negate(Session, c)
             IN /\ Commit(r.st, cap)
                /\ ret' = Ret("negate", o, <<>>, r.kind, r.val, r.ran)
      ELSE /\ Commit(Session, cap)
           /\ ret' = Ret("negate", o, <<>>, "raise", <<"TypeError">>, FALSE)

IsAllowedGetattr(cap, names) ==
  \E o \in Wrapped, name \in names :
    LET r == is_allowed_getattr(Session, o, name)
    IN /\ Commit(r.st, cap)
       /\ ret' = Ret("is_allowed_getattr", o, <<name>>, r.kind, r.val, r.ran)

Getattr(cap, names, defaults) ==
  \E o \in Wrapped, name \in names, default \in defaults :
    LET a == LiveAttr(addr, o, name)
    IN IF a.exc # ""
         THEN LET r == getattr_missing(Session, default, a.ran)
              IN /\ Commit(r.st, cap)
                 /\ ret' = Ret("getattr", o, <<name, default>>, r.kind, r.val, r.ran)
         ELSE \E c \in a.objs :
                LET r == getattr_found(Session, c, a.ran)
                IN /\ Commit(r.st, cap)
                   /\ ret' = Ret("getattr", o, <<name, default>>, r.kind, r.val, r.ran)

GetSafeValue(cap, defaults) ==
  \E o \in Wrapped, default \in defaults :
    LET r == get_safe_value(Session, o, default)
    IN /\ Commit(r.st, cap)
       /\ ret' = Ret("get_safe_value", o, <<default>>, r.kind, r.val, r.ran)

GetAccessPathTuples(cap) ==
  \E o \in Wrapped :
    LET r == get_access_path_tuples(Session, o)
    IN /\ Commit(r.st, cap)
       /\ ret' = Ret("get_access_path_tuples", o, <<>>, r.kind, r.val, r.ran)

(* --------------------------- specifications --------------------------- *)

\* A whole session: every operation that reaches the cache, the host
\* allocating and collecting temporaries in between.
Roots == {"myl", "d", "one"}

Next ==
  \/ Alloc
  \/ Release
  \/ Collect
  \/ CreateAccess(MaxCache, Roots)
  \/ PyGetitem(MaxCache, {1})
  \/ PyIterList(MaxCache)
  \/ PyMroAccesses(MaxCache)
  \/ PyClass(MaxCache)
  \/ DictValuesOp(MaxCache)
  \/ ExecuteOperation(MaxCache)
  \/ Negate(MaxCache)
  \/ Getattr(MaxCache, {"data", "qprop"}, {"_sentinel", "None"})
  \/ GetAccessPathTuples(MaxCache)

Spec == Init /\ [][Next]_vars

\* Subscript and iteration of containers.
IterRoots == {"lst2", "lst21", "lst22", "myl", "gen", "d", "os"}

\* The subscripts tried: in range, and at and past the end of the long lists.
Indices == {0, 1, IterCap + 1, IterCap + 2}

NextIter ==
  \/ CreateAccess(MaxCache + 1, IterRoots)
  \/ PyGetitem(MaxCache + 1, Indices)
  \/ PyIterList(MaxCache + 1)

SpecIter == Init /\ [][NextIter]_vars

\* Attribute classification and attribute reads.
AttrRoots == {"myl", "one", "d", "lst2", "os"}

NextAttr ==
  \/ CreateAccess(MaxCache, AttrRoots)
  \/ IsAllowedGetattr(MaxCache, AttrNames)
  \/ Getattr(MaxCache, AttrNames, Defaults)

SpecAttr == Init /\ [][NextAttr]_vars

\* Safe literal values.
LiteralRoots == {"one", "zero", "True", "myl", "lst2", "os", "int"}

NextLiteral ==
  \/ Alloc
  \/ Release
  \/ CreateAccess(MaxCache, LiteralRoots)
  \/ GetSafeValue(MaxCache, Defaults)

SpecLiteral == Init /\ [][NextLiteral]_vars

\* Access paths.
PathRoots == {"os", "builtins", "MyList", "myl", "append", "gen", "list", "one"}

NextPath ==
  \/ CreateAccess(MaxCache + 1, PathRoots)
  \/ GetAccessPathTuples(MaxCache + 1)

SpecPath == Init /\ [][NextPath]_vars

(* ------------------------------- claims ------------------------------- *)

\* C1: create_access returns the identical wrapper on every call for a
\* value: one wrapper is ever constructed per value, it is the one stored in
\* the cache, and a call that finds the entry returns that stored wrapper.
C1_OneWrapperPerValue ==
  /\ \A o \in Objs : made[o] <= 1
  /\ \A k \in DOMAIN cache : cache[k].w = <<cache[k].obj, 1>>
  /\ ret.op = "create_access" =>
       /\ ret.val = << <<ret.self, 1>> >>
       /\ cache[Id(addr, ret.self)].w = ret.val[1]

\* C1 witness: a second create_access of a temporary found its entry.
C1_Witness ==
  /\ ret.op = "create_access"
  /\ ret.hit
  /\ ret.self \in Temps
  /\ made[ret.self] = 1

\* C2: every cache entry holds the value whose id is its key, that value is
\* alive, the stored wrapper wraps it, and create_access(v) returns a
\* wrapper of v, also after a collected value's address has been reused.
C2_EntryHoldsItsValue ==
  /\ \A k \in DOMAIN cache :
       /\ cache[k].obj \in Objs
       /\ Alive(addr, cache[k].obj)
       /\ Id(addr, cache[k].obj) = k
       /\ cache[k].w[1] = cache[k].obj
  /\ ret.op = "create_access" => ret.val[1][1] = ret.self

\* C2 witness: a temporary was collected, a later one got its address and
\* was wrapped under that address.
C2_Witness ==
  \E t \in Temps, u \in Temps :
    /\ addr[t] < 0
    /\ addr[u] = 0 - addr[t]
    /\ ret.op = "create_access"
    /\ ret.self = u
    /\ addr[u] \in DOMAIN cache

\* C3: every step keeps every key of the cache and the entry stored under it.
C3_InsertOnly ==
  [][\A k \in DOMAIN cache : k \in DOMAIN cache' /\ cache'[k] = cache[k]]_vars

\* C3 witness: an operator application has added its result to a cache that
\* already held other entries.
C3_Witness ==
  /\ ret.op = "execute_operation"
  /\ Cardinality(DOMAIN cache) >= 2
  /\ ret.val[1][1] \notin {ret.self}

\* C4: py__getitem__ and py__iter__list on a value whose exact type is not
\* one of str, list, tuple, unicode, bytes, bytearray, dict return None and
\* the empty list, and run no code of the value.
C4_NonWhitelistedUntouched ==
  (/\ ret.op \in {"py__getitem__", "py__iter__list"}
   /\ TypeOf(ret.self) \notin
        {"str", "list", "tuple", "unicode", "bytes", "bytearray", "dict"})
  => /\ ~ret.ran
     /\ ret.val = <<>>
     /\ ret.kind = (IF ret.op = "py__getitem__" THEN "none" ELSE "list")

\* C4 witness: a subscript was asked of an instance of a list subclass.
C4_Witness ==
  /\ ret.op = "py__getitem__"
  /\ ret.self = "myl"
  /\ ret.arg = <<0>>

\* C5: py__iter__list on a value of a whitelisted type with n elements
\* returns the wrappers of its first min(n, 21) elements, in order, each the
\* wrapper the cache holds for that element.
C5_FirstTwentyOne ==
  (/\ ret.op = "py__iter__list"
   /\ TypeOf(ret.self) \in
        {"str", "list", "tuple", "unicode", "bytes", "bytearray", "dict"})
  => LET n == Len(Elems(ret.self))
     IN /\ ret.kind = "list"
        /\ Len(ret.val) = (IF n < 21 THEN n ELSE 21)
        /\ \A i \in 1..Len(ret.val) :
             /\ ret.val[i][1] = Elems(ret.self)[i]
             /\ Id(addr, Elems(ret.self)[i]) \in DOMAIN cache
             /\ cache[Id(addr, Elems(ret.self)[i])].w = ret.val[i]

\* C5 witness: a list of 22 elements was iterated.
C5_Witness ==
  /\ ret.op = "py__iter__list"
  /\ ret.self = "lst22"
  /\ Len(Elems("lst22")) = 22
  /\ Len(ret.val) = 21

\* C6 as stated: py__iter__list on an infinite iterable returns 21 elements.
C6_Original ==
  (ret.op = "py__iter__list" /\ Infinite(ret.self))
  => (ret.kind = "list" /\ Len(ret.val) = 21)

\* C6 amended: py__iter__list on an infinite iterable returns the empty list
\* and runs none of its code; its type is never a whitelisted one.
C6_InfiniteNotIterated ==
  (ret.op = "py__iter__list" /\ Infinite(ret.self))
  => (ret.kind = "list" /\ ret.val = <<>> /\ ~ret.ran)

\* C6 witness: the generator was asked for its elements.
C6_Witness ==
  /\ ret.op = "py__iter__list"
  /\ ret.self = "gen"

\* C7 as stated: get_safe_value returns the value itself for a whitelisted
\* type; otherwise it raises ValueError without a default and returns the
\* supplied default with one.
C7_Original ==
  ret.op = "get_safe_value" =>
    IF TypeOf(ret.self) \in {"float", "int", "str", "unicode", "slice", "ellipsis"}
      THEN ret.kind = "value" /\ ret.val = <<ret.self>>
      ELSE IF ret.arg = <<"_sentinel">>
        THEN ret.kind = "raise" /\ ret.val = <<"ValueError">>
        ELSE IF ret.arg = <<"None">>
          THEN ret.kind = "none"
          ELSE ret.kind = "value" /\ ret.val = ret.arg

\* C7 amended: as stated, except that with a default supplied the result for
\* a value of any other type is None, whatever the default was.
C7_DefaultGivesNone ==
  ret.op = "get_safe_value" =>
    IF TypeOf(ret.self) \in {"float", "int", "str", "unicode", "slice", "ellipsis"}
      THEN ret.kind = "value" /\ ret.val = <<ret.self>>
      ELSE IF ret.arg = <<"_sentinel">>
        THEN ret.kind = "raise" /\ ret.val = <<"ValueError">>
        ELSE ret.kind = "none" /\ ret.val = <<>>

\* C7 witness: a container was asked for its literal value, a default given.
C7_Witness ==
  /\ ret.op = "get_safe_value"
  /\ ret.self = "lst2"
  /\ ret.arg = <<"one">>

\* C8: is_allowed_getattr raises AttributeError for a name the value does
\* not have, returns True for an attribute found as a function, a getset or
\* member descriptor, a method or wrapper descriptor, a classmethod
\* descriptor, a staticmethod or a classmethod, returns False for one found
\* as a property, and neither reads the attribute nor touches the cache.
C8_StaticClassification ==
  ret.op = "is_allowed_getattr" =>
    LET a == getattr_static(ret.self, ret.arg[1])
    IN /\ ~ret.ran
       /\ ~a.found => (ret.kind = "raise" /\ ret.val = <<"AttributeError">>)
       /\ (a.found /\ a.kind \in
             {"function", "getset_descriptor", "member_descriptor",
              "method_descriptor", "wrapper_descriptor",
              "classmethod_descriptor", "staticmethod", "classmethod"})
            => (ret.kind = "bool" /\ ret.val = <<TRUE>>)
       /\ (a.found /\ a.isget /\ a.kind = "property")
            => (ret.kind = "bool" /\ ret.val = <<FALSE>>)

\* C8 witness: a classmethod was classified.
C8_Witness ==
  /\ ret.op = "is_allowed_getattr"
  /\ ret.self = "myl"
  /\ ret.arg = <<"cmeth">>
  /\ ret.val = <<TRUE>>

\* C9 as stated: get_access_path_tuples of a module is the one entry of its
\* name and wrapper; of a value whose __module__ cannot be imported it is
\* empty.
C9_Original ==
  ret.op = "get_access_path_tuples" =>
    /\ ret.self \in Modules =>
         ret.val = << <<NameOf(ret.self), <<ret.self, 1>> >> >>
    /\ (ModuleName(ret.self) \notin {"", "None"} /\ Import(ModuleName(ret.self)) = "")
         => ret.val = <<>>

\* C9 amended: of a module, the one entry; of a value whose __module__ cannot
\* be imported, builtins stands in for the module: the entries of builtins
\* and of the value, and the empty list only when the value has no __name__.
C9_BuiltinsFallback ==
  ret.op = "get_access_path_tuples" =>
    /\ ret.self \in Modules =>
         ret.val = << <<NameOf(ret.self), <<ret.self, 1>> >> >>
    /\ (ModuleName(ret.self) \notin {"", "None"} /\ Import(ModuleName(ret.self)) = "")
         => ret.val = (IF NameOf(ret.self) = "" THEN <<>>
                       ELSE << <<"builtins", <<"builtins", 1>> >>,
                               <<NameOf(ret.self), <<ret.self, 1>> >> >>)

\* C9 witness: the path of a class whose module does not exist was asked.
C9_Witness ==
  /\ ret.op = "get_access_path_tuples"
  /\ ret.self = "MyList"
  /\ Len(ret.val) = 2

\* C10 as stated: getattr returns the wrapper of the value read; when the
\* read raises AttributeError it raises without a default and returns the
\* default the caller passed with one.
C10_Claim ==
  ret.op = "getattr" =>
    IF LiveAttr(addr, ret.self, ret.arg[1]).exc = ""
      THEN /\ ret.kind = "access"
           /\ cache[Id(addr, ret.val[1][1])].w = ret.val[1]
      ELSE IF ret.arg[2] = "_sentinel"
        THEN ret.kind = "raise" /\ ret.val = <<"AttributeError">>
        ELSE IF ret.arg[2] = "None"
          THEN ret.kind = "none"
          ELSE ret.kind = "value" /\ ret.val = <<ret.arg[2]>>

====
